---- MODULE Spec2Model ----
(***************************************************************************)
(* Censoring rewrites of pymc.logprob (pymc/logprob/censoring.py).         *)
(*                                                                         *)
(* Two node rewriters, find_measurable_clips and find_measurable_roundings,*)
(* replace clip / round / floor / ceil nodes of a measurable base variable *)
(* by MeasurableClip / MeasurableRound nodes; clip_logprob and             *)
(* round_logprob give the log-density of those nodes.                      *)
(*                                                                         *)
(* Real numbers are fixed-point integers in units of 1/4, so that 0.5 and  *)
(* 1.0 are exact and values between the half-integers exist.               *)
(* Log-densities are symbolic terms over the base variable's own           *)
(* log-probability and log-CDF, which live outside this file.              *)
(***************************************************************************)
EXTENDS Integers, Sequences, FiniteSets, TLC

VARIABLES
    source_graph,   \* the author's graph, which the driver clones and leaves alone
    nodes,          \* the function graph: node id -> [op, inputs, dtype]
    unmeasurable,   \* nodes whose measurable capability has been stripped
    rv_values,      \* keys of the observed-value mapping (rv_map_feature.rv_values)
    nrewrites,      \* number of replacements the rewriters have returned
    ret,            \* what the last rewriter call returned
    lp,             \* the last log-density evaluation
    joint           \* result of the joint log-probability driver

vars == <<source_graph, nodes, unmeasurable, rv_values, nrewrites, ret, lp, joint>>

----------------------------------------------------------------------------
(* Bounds of the model *)

\* number of nodes of a graph
NumNodes == 3
\* observed values range over -MaxK .. MaxK
MaxK == 2
\* the rewrite pass is cut off after this many accepted replacements
MaxRewrites == 5

----------------------------------------------------------------------------
(* Numbers: fixed point, unit 1/4 *)

\* the literal 1.0 of round_logprob
One == 4
\* the literal 0.5 of round_logprob
Half == 2
\* np.inf and -np.inf
PosInf == 1000
NegInf == -1000

isinf(x) == x = PosInf \/ x = NegInf
isneginf(x) == x = NegInf

\* at.floor, at.ceil and at.round (round half to even) on fixed-point numbers
floor(x) == (x \div One) * One
ceil(x) == -floor(-x)
round(x) ==
    LET f == floor(x)
        r == x - f
    IN  IF 2 * r < One THEN f
        ELSE IF 2 * r > One THEN f + One
        ELSE IF (f \div One) % 2 = 0 THEN f ELSE f + One

----------------------------------------------------------------------------
(* dtype names are strings; spelled as character sequences so that         *)
(* str.startswith is computed                                              *)

float64 == <<"f", "l", "o", "a", "t", "6", "4">>
float32 == <<"f", "l", "o", "a", "t", "3", "2">>
int64 == <<"i", "n", "t", "6", "4">>
uint8 == <<"u", "i", "n", "t", "8">>

startswith(s, prefix) ==
    /\ Len(s) >= Len(prefix)
    /\ SubSeq(s, 1, Len(prefix)) = prefix

DTypes == {float64, float32, int64, uint8}

----------------------------------------------------------------------------
(* Symbolic log-density terms *)

NegInfTerm == [fn |-> "-inf"]
BaseLogprob(v) == [fn |-> "logprob", at |-> v]
BaseLogcdf(v) == [fn |-> "logcdf", at |-> v]
log1mexp(t) == [fn |-> "log1mexp", a |-> t]
logaddexp(s, t) == [fn |-> "logaddexp", a |-> s, b |-> t]
logdiffexp(s, t) == [fn |-> "logdiffexp", a |-> s, b |-> t]

\* at.switch on one element
switch(c, s, t) == IF c THEN s ELSE t

\* element i of a tensor broadcast against the others
Elem(t, i) == IF Len(t) = 1 THEN t[1] ELSE t[i]

\* tensor variables: a TensorConstant carries its value, the output of a
\* node carries the value it takes when the density is evaluated
Constant(v) == [kind |-> "const", id |-> 0, value |-> v]
Output(n, v) == [kind |-> "out", id |-> n, value |-> v]

----------------------------------------------------------------------------
(* clip_logprob *)

UpperUnbounded(upper_bound) ==
    /\ upper_bound.kind = "const"
    /\ \A j \in DOMAIN upper_bound.value : isinf(upper_bound.value[j])

LowerUnbounded(lower_bound) ==
    /\ lower_bound.kind = "const"
    /\ \A j \in DOMAIN lower_bound.value : isneginf(lower_bound.value[j])

IsDiscreteDtype(dtype) == startswith(dtype, <<"i", "n", "t">>)

logccdf(dtype, v) ==
    IF IsDiscreteDtype(dtype)
    THEN logaddexp(log1mexp(BaseLogcdf(v)), BaseLogprob(v))
    ELSE log1mexp(BaseLogcdf(v))

\* the ordering test evaluated before the equality test
UpperSwitchOrderFirst(dtype, v, ub, logprob) ==
    switch(v >= ub, NegInfTerm, switch(v = ub, logccdf(dtype, v), logprob))

UpperSwitch(dtype, v, ub, logprob) ==
    switch(v = ub, logccdf(dtype, v), switch(v > ub, NegInfTerm, logprob))

LowerSwitch(v, lb, logprob) ==
    switch(v = lb, BaseLogcdf(v), switch(v < lb, NegInfTerm, logprob))

\* at.any in place of at.all
BoundsOrderedAny(lower_bound, upper_bound) ==
    LET n == IF Len(lower_bound.value) > Len(upper_bound.value)
             THEN Len(lower_bound.value) ELSE Len(upper_bound.value)
    IN  \E j \in 1..n : Elem(lower_bound.value, j) <= Elem(upper_bound.value, j)

BoundsOrdered(lower_bound, upper_bound) ==
    LET n == IF Len(lower_bound.value) > Len(upper_bound.value)
             THEN Len(lower_bound.value) ELSE Len(upper_bound.value)
    IN  \A j \in 1..n : Elem(lower_bound.value, j) <= Elem(upper_bound.value, j)

\* CheckParameterValue(msg)(logprob, cond): the guarded expression evaluates
\* to logprob where cond holds and fails where it does not
CheckParameterValue(logp, cond) ==
    IF cond THEN [status |-> "ok", logp |-> logp]
    ELSE [status |-> "ParameterValueError", logp |-> <<>>]

clip_logprob(value, dtype, lower_bound, upper_bound) ==
    LET is_upper_bounded == ~UpperUnbounded(upper_bound)
        is_lower_bounded == ~LowerUnbounded(lower_bound)
        elem(i) ==
            LET v == value[i]
                p0 == BaseLogprob(v)
                p1 == IF is_upper_bounded
                      THEN UpperSwitch(dtype, v, Elem(upper_bound.value, i), p0)
                      ELSE p0
            IN  IF is_lower_bounded
                THEN LowerSwitch(v, Elem(lower_bound.value, i), p1)
                ELSE p1
        logprob == [i \in DOMAIN value |-> elem(i)]
        checked == is_lower_bounded /\ is_upper_bounded
        nswitch == (IF is_upper_bounded THEN 2 ELSE 0)
                   + (IF is_lower_bounded THEN 2 ELSE 0)
        out == IF checked
               THEN CheckParameterValue(logprob,
                                        BoundsOrdered(lower_bound, upper_bound))
               ELSE [status |-> "ok", logp |-> logprob]
    IN  [status |-> out.status, logp |-> out.logp,
         switches |-> nswitch, check |-> checked]

----------------------------------------------------------------------------
(* round_logprob *)

Snap(scalar_op, v) ==
    CASE scalar_op = "RoundHalfToEven" -> round(v)
      [] scalar_op = "Floor" -> floor(v)
      [] scalar_op = "Ceil" -> ceil(v)

value_upper(scalar_op, v) ==
    CASE scalar_op = "RoundHalfToEven" -> Snap(scalar_op, v) + Half
      [] scalar_op = "Floor" -> Snap(scalar_op, v) + One
      [] scalar_op = "Ceil" -> Snap(scalar_op, v)

\* the floor bracket taken for round-to-even as well
value_lower_floor(scalar_op, v) ==
    CASE scalar_op = "RoundHalfToEven" -> Snap(scalar_op, v)
      [] scalar_op = "Floor" -> Snap(scalar_op, v)
      [] scalar_op = "Ceil" -> Snap(scalar_op, v) - One

value_lower(scalar_op, v) ==
    CASE scalar_op = "RoundHalfToEven" -> Snap(scalar_op, v) - Half
      [] scalar_op = "Floor" -> Snap(scalar_op, v)
      [] scalar_op = "Ceil" -> Snap(scalar_op, v) - One

RoundKinds == {"RoundHalfToEven", "Floor", "Ceil"}

round_logprob(scalar_op, value) ==
    IF scalar_op \notin RoundKinds
    THEN [status |-> "TypeError", logp |-> <<>>, switches |-> 0, check |-> FALSE]
    ELSE [status |-> "ok",
          logp |-> [i \in DOMAIN value |->
                      logdiffexp(BaseLogcdf(value_upper(scalar_op, value[i])),
                                 BaseLogcdf(value_lower(scalar_op, value[i])))],
          switches |-> 0, check |-> FALSE]

----------------------------------------------------------------------------
(* The function graph *)

Nodes == 1..NumNodes

\* op classes; MeasurableClip and MeasurableRound are Elemwise subclasses
RandomVariableOp == [cls |-> "RandomVariable", scalar_op |-> "None"]
NoOwner == [cls |-> "None", scalar_op |-> "None"]
ElemwiseOp(scalar_op) == [cls |-> "Elemwise", scalar_op |-> scalar_op]
MeasurableClip(scalar_op) == [cls |-> "MeasurableClip", scalar_op |-> scalar_op]
MeasurableRound(scalar_op) == [cls |-> "MeasurableRound", scalar_op |-> scalar_op]

make_node(op, inputs, dtype) == [op |-> op, inputs |-> inputs, dtype |-> dtype]

IsElemwise(op) == op.cls \in {"Elemwise", "MeasurableClip", "MeasurableRound"}

\* isinstance(var.owner.op, MeasurableVariable) for the output of node b:
\* the op class is one with a registered log-probability and the capability
\* has not been stripped from the node
IsMeasurableVariable(b) ==
    /\ nodes[b].op.cls \in {"RandomVariable", "MeasurableClip", "MeasurableRound"}
    /\ b \notin unmeasurable

\* assign_custom_measurable_outputs: the base's defining node loses its
\* measurable capability
assign_custom_measurable_outputs(b) == unmeasurable \cup {b}

\* `x is y` on tensor variables
Is(x, y) == x.kind = "out" /\ y.kind = "out" /\ x.id = y.id

\* what a rewriter returns: None, or [replacement] with the capability table
\* it leaves behind
ReturnNone == [replacement |-> <<>>, unmeasurable |-> unmeasurable]

----------------------------------------------------------------------------
(* find_measurable_clips *)

\* the isinstance(..., MeasurableVariable) test left out
ClipBaseEligibleAnyOwner(base_var) ==
    /\ nodes[base_var.id].op.cls # "None"
    /\ base_var.id \notin rv_values

\* the rv_values test left out
ClipBaseEligibleObserved(base_var) ==
    /\ nodes[base_var.id].op.cls # "None"
    /\ IsMeasurableVariable(base_var.id)

ClipBaseEligible(base_var) ==
    /\ nodes[base_var.id].op.cls # "None"
    /\ IsMeasurableVariable(base_var.id)
    /\ base_var.id \notin rv_values

ClipCandidate(n) ==
    /\ nodes[n].op.cls # "MeasurableClip"
    /\ IsElemwise(nodes[n].op)
    /\ nodes[n].op.scalar_op = "Clip"

\* +inf substituted on the lower side as well
SentinelLowerPosInf(base_var, lower_bound) ==
    IF ~Is(lower_bound, base_var) THEN lower_bound ELSE Constant(<<PosInf>>)

SentinelLower(base_var, lower_bound) ==
    IF ~Is(lower_bound, base_var) THEN lower_bound ELSE Constant(<<NegInf>>)

SentinelUpper(base_var, upper_bound) ==
    IF ~Is(upper_bound, base_var) THEN upper_bound ELSE Constant(<<PosInf>>)

\* the rewriter keyed on the scalar operation alone: both early returns lost
find_measurable_clips_by_scalar_op(n) ==
    IF ~(IsElemwise(nodes[n].op) /\ nodes[n].op.scalar_op = "Clip")
    THEN ReturnNone
    ELSE LET base_var == nodes[n].inputs[1]
         IN  [replacement |->
                <<make_node(MeasurableClip("Clip"),
                            <<base_var,
                              SentinelLower(base_var, nodes[n].inputs[2]),
                              SentinelUpper(base_var, nodes[n].inputs[3])>>,
                            nodes[n].dtype)>>,
              unmeasurable |-> assign_custom_measurable_outputs(base_var.id)]

find_measurable_clips(n) ==
    IF ~ClipCandidate(n) THEN ReturnNone
    ELSE LET base_var == nodes[n].inputs[1]
             lower_bound == nodes[n].inputs[2]
             upper_bound == nodes[n].inputs[3]
         IN  IF ~ClipBaseEligible(base_var) THEN ReturnNone
             ELSE [replacement |->
                     <<make_node(MeasurableClip("Clip"),
                                 <<base_var,
                                   SentinelLower(base_var, lower_bound),
                                   SentinelUpper(base_var, upper_bound)>>,
                                 nodes[n].dtype)>>,
                   unmeasurable |-> assign_custom_measurable_outputs(base_var.id)]

----------------------------------------------------------------------------
(* find_measurable_roundings *)

\* the dtype test left out
RoundBaseEligibleAnyDtype(base_var) ==
    /\ nodes[base_var.id].op.cls # "None"
    /\ IsMeasurableVariable(base_var.id)
    /\ base_var.id \notin rv_values

RoundBaseEligible(base_var) ==
    /\ nodes[base_var.id].op.cls # "None"
    /\ IsMeasurableVariable(base_var.id)
    /\ base_var.id \notin rv_values
    /\ startswith(nodes[base_var.id].dtype, <<"f", "l", "o", "a", "t">>)

RoundCandidate(n) ==
    /\ nodes[n].op.cls # "MeasurableRound"
    /\ IsElemwise(nodes[n].op)
    /\ nodes[n].op.scalar_op \in RoundKinds

find_measurable_roundings(n) ==
    IF ~RoundCandidate(n) THEN ReturnNone
    ELSE LET base_var == nodes[n].inputs[1]
         IN  IF ~RoundBaseEligible(base_var) THEN ReturnNone
             ELSE [replacement |->
                     <<make_node(MeasurableRound(nodes[n].op.scalar_op),
                                 <<base_var>>, nodes[n].dtype)>>,
                   unmeasurable |-> assign_custom_measurable_outputs(base_var.id)]

----------------------------------------------------------------------------
(* Graphs a model author can build: a root variable and clip / round /     *)
(* floor / ceil nodes over earlier nodes.  A clip bound is the base itself *)
(* (the one-sided idiom) or a constant.                                    *)

RootNodes ==
    {make_node(RandomVariableOp, <<>>, d) : d \in {float64, int64, uint8}}
        \cup {make_node(NoOwner, <<>>, float64)}

ClipNodes(g) ==
    UNION {{make_node(ElemwiseOp("Clip"), <<Output(b, <<>>), lo, up>>,
                      g[b].dtype) :
                lo \in {Output(b, <<>>), Constant(<<-One>>)},
                up \in {Output(b, <<>>), Constant(<<One>>)}} :
            b \in DOMAIN g}

RoundNodes(g) ==
    {make_node(ElemwiseOp(k), <<Output(b, <<>>)>>, float64) :
        b \in DOMAIN g, k \in RoundKinds}

RECURSIVE Graphs(_)
Graphs(n) ==
    IF n = 1 THEN {<<r>> : r \in RootNodes}
    ELSE UNION {{Append(g, d) : d \in ClipNodes(g) \cup RoundNodes(g)} :
                    g \in Graphs(n - 1)}

NoReturn == "-"
NoLogprob ==
    [fn |-> "none", node |-> 0, scalar_op |-> "None", dtype |-> <<>>,
     value |-> <<>>, lower_bound |-> Constant(<<>>),
     upper_bound |-> Constant(<<>>),
     result |-> [status |-> "none", logp |-> <<>>, switches |-> 0,
                 check |-> FALSE]]
NoJoint == [status |-> "none", missing |-> {}, terms |-> {}]

Init ==
    /\ source_graph \in Graphs(NumNodes)
    /\ nodes = source_graph
    /\ unmeasurable = {}
    /\ rv_values \in SUBSET Nodes
    /\ nrewrites = 0
    /\ ret = NoReturn
    /\ lp = NoLogprob
    /\ joint = NoJoint

----------------------------------------------------------------------------
(* The rewrite pass: the scheduler offers a node to a rewriter and splices *)
(* in the replacement it returns                                           *)

Apply(n, r) ==
    IF r.replacement = <<>>
    THEN /\ ret' = "None"
         /\ UNCHANGED <<nodes, unmeasurable, nrewrites>>
    ELSE /\ nrewrites < MaxRewrites
         /\ nodes' = [nodes EXCEPT ![n] = r.replacement[1]]
         /\ unmeasurable' = r.unmeasurable
         /\ nrewrites' = nrewrites + 1
         /\ ret' = "replacement"

OfferClip ==
    /\ joint.status = "none"
    /\ \E n \in Nodes : Apply(n, find_measurable_clips(n))
    /\ UNCHANGED <<source_graph, rv_values, lp, joint>>

OfferRounding ==
    /\ joint.status = "none"
    /\ \E n \in Nodes : Apply(n, find_measurable_roundings(n))
    /\ UNCHANGED <<source_graph, rv_values, lp, joint>>

\* no rewriter matches any node
FixedPoint ==
    \A n \in Nodes :
        /\ find_measurable_clips(n).replacement = <<>>
        /\ find_measurable_roundings(n).replacement = <<>>

----------------------------------------------------------------------------
(* The joint log-probability driver: after the pass has returned, every    *)
(* key of the observed-value mapping must be the output of a measurable    *)
(* node; the others are reported by name                                   *)

factorized_joint_logprob ==
    /\ joint.status = "none"
    /\ FixedPoint
    /\ LET missing == {k \in rv_values : ~IsMeasurableVariable(k)}
       IN  joint' = IF missing = {}
                    THEN [status |-> "ok", missing |-> {}, terms |-> rv_values]
                    ELSE [status |-> "RuntimeError", missing |-> missing,
                          terms |-> {}]
    /\ ret' = NoReturn
    /\ UNCHANGED <<source_graph, nodes, unmeasurable, rv_values, nrewrites, lp>>

\* the derived log-probability of a rewritten key, evaluated at a value
ScalarValues == {<<k * One>> : k \in -MaxK..MaxK}

Logprob ==
    /\ joint.status = "ok"
    /\ \E n \in rv_values, value \in ScalarValues :
          /\ nodes[n].op.cls \in {"MeasurableClip", "MeasurableRound"}
          /\ LET base_rv == nodes[nodes[n].inputs[1].id]
             IN  lp' = IF nodes[n].op.cls = "MeasurableClip"
                       THEN [fn |-> "clip_logprob", node |-> n,
                             scalar_op |-> nodes[n].op.scalar_op,
                             dtype |-> base_rv.dtype, value |-> value,
                             lower_bound |-> nodes[n].inputs[2],
                             upper_bound |-> nodes[n].inputs[3],
                             result |-> clip_logprob(value, base_rv.dtype,
                                                     nodes[n].inputs[2],
                                                     nodes[n].inputs[3])]
                       ELSE [fn |-> "round_logprob", node |-> n,
                             scalar_op |-> nodes[n].op.scalar_op,
                             dtype |-> base_rv.dtype, value |-> value,
                             lower_bound |-> Constant(<<>>),
                             upper_bound |-> Constant(<<>>),
                             result |-> round_logprob(nodes[n].op.scalar_op,
                                                      value)]
    /\ UNCHANGED <<source_graph, nodes, unmeasurable, rv_values, nrewrites, ret, joint>>

Next == OfferClip \/ OfferRounding \/ factorized_joint_logprob \/ Logprob

Spec == Init /\ [][Next]_vars

----------------------------------------------------------------------------
(* The two density rules on their own: the inputs are drawn at the start   *)
(* and the rule is applied to them.  Values and bounds are tensors of one  *)
(* or two elements; a bound is a constant or the output of another node.   *)

GridValues == {k * One : k \in -MaxK..MaxK}
FineValues == (-MaxK * One)..(MaxK * One)
BoundValues == {NegInf, -One, One, PosInf}

Tensors(S) == {<<x>> : x \in S} \cup {<<x, y>> : x \in S, y \in S}
Bounds == {Constant(v) : v \in Tensors(BoundValues)}
              \cup {Output(0, v) : v \in Tensors(BoundValues)}

ClipInput(d, value, lo, up) ==
    [fn |-> "clip_logprob", node |-> 0, scalar_op |-> "Clip", dtype |-> d,
     value |-> value, lower_bound |-> lo, upper_bound |-> up,
     result |-> NoLogprob.result]

RoundInput(k, value) ==
    [fn |-> "round_logprob", node |-> 0, scalar_op |-> k, dtype |-> float64,
     value |-> value, lower_bound |-> Constant(<<>>),
     upper_bound |-> Constant(<<>>), result |-> NoLogprob.result]

InitLogprob ==
    /\ source_graph = <<make_node(RandomVariableOp, <<>>, float64)>>
    /\ nodes = source_graph
    /\ unmeasurable = {}
    /\ rv_values = {}
    /\ nrewrites = 0
    /\ ret = NoReturn
    /\ joint = NoJoint
    /\ \/ \E d \in DTypes, x \in GridValues, y \in GridValues,
              lo \in Bounds, up \in Bounds :
              lp = ClipInput(d, <<x, y>>, lo, up)
       \/ \E k \in RoundKinds, x \in FineValues, y \in FineValues :
              lp = RoundInput(k, <<x, y>>)

ClipLogprobCall ==
    /\ lp.fn = "clip_logprob"
    /\ lp.result.status = "none"
    /\ lp' = [lp EXCEPT !.result = clip_logprob(lp.value, lp.dtype,
                                                lp.lower_bound, lp.upper_bound)]
    /\ UNCHANGED <<source_graph, nodes, unmeasurable, rv_values, nrewrites,
                   ret, joint>>

RoundLogprobCall ==
    /\ lp.fn = "round_logprob"
    /\ lp.result.status = "none"
    /\ lp' = [lp EXCEPT !.result = round_logprob(lp.scalar_op, lp.value)]
    /\ UNCHANGED <<source_graph, nodes, unmeasurable, rv_values, nrewrites,
                   ret, joint>>

NextLogprob == ClipLogprobCall \/ RoundLogprobCall

SpecLogprob == InitLogprob /\ [][NextLogprob]_vars

\* the rule has been applied
Evaluated(fn) == lp.fn = fn /\ lp.result.status # "none"

----------------------------------------------------------------------------
(* Vocabulary of the properties *)

AllFinite(bound) == \A j \in DOMAIN bound.value : ~isinf(bound.value[j])
IsLowerSentinel(bound) ==
    bound.kind = "const" /\ \A j \in DOMAIN bound.value : bound.value[j] = NegInf
IsUpperSentinel(bound) ==
    bound.kind = "const" /\ \A j \in DOMAIN bound.value : bound.value[j] = PosInf
ContinuousDomain(dtype) == dtype \in {float64, float32}
IntegerDomain(dtype) == dtype \in {int64, uint8}
OnGrid(v) == v % One = 0

\* the five cases of a two-sided clip of a continuous base
FiveCases(v, lo, up) ==
    IF v < lo THEN NegInfTerm
    ELSE IF v = lo THEN BaseLogcdf(v)
    ELSE IF v < up THEN BaseLogprob(v)
    ELSE IF v = up THEN log1mexp(BaseLogcdf(v))
    ELSE NegInfTerm

\* every term the clip rule can select for the value v
ClipBranches(v) ==
    {NegInfTerm, BaseLogcdf(v), BaseLogprob(v), log1mexp(BaseLogcdf(v)),
     logaddexp(log1mexp(BaseLogcdf(v)), BaseLogprob(v))}

----------------------------------------------------------------------------
(* C1: for a clipped continuous base with finite bounds lower < upper, the *)
(* clip rule selects -inf below lower, the base log-CDF at lower, the base *)
(* log-probability strictly inside, log1mexp of the base log-CDF at upper  *)
(* and -inf above upper; a value on a bound gets the boundary branch.      *)
C1_ClipFiveCases ==
    (/\ Evaluated("clip_logprob")
     /\ ContinuousDomain(lp.dtype)
     /\ AllFinite(lp.lower_bound) /\ AllFinite(lp.upper_bound)
     /\ \A i \in DOMAIN lp.value :
           Elem(lp.lower_bound.value, i) < Elem(lp.upper_bound.value, i))
    => /\ lp.result.status = "ok"
       /\ \A i \in DOMAIN lp.value :
             lp.result.logp[i] = FiveCases(lp.value[i],
                                           Elem(lp.lower_bound.value, i),
                                           Elem(lp.upper_bound.value, i))

C1_Witness ==
    /\ Evaluated("clip_logprob")
    /\ lp.dtype = float64
    /\ lp.lower_bound = Constant(<<-One>>)
    /\ lp.upper_bound = Constant(<<One>>)
    /\ lp.value = <<-One, One>>
    /\ lp.result.logp = <<BaseLogcdf(-One), log1mexp(BaseLogcdf(One))>>

(* C2: for every clipped base whose value domain is integer-valued and     *)
(* whose upper bound is finite, the density selected at value = upper      *)
(* bound is logaddexp(log-survival, log-probability-mass), the log of      *)
(* P(X >= upper); for a continuous base it is the plain log-survival.      *)
C2_DiscreteUpperMass ==
    (/\ Evaluated("clip_logprob")
     /\ lp.result.status = "ok"
     /\ AllFinite(lp.upper_bound))
    => \A i \in DOMAIN lp.value :
          (/\ lp.value[i] = Elem(lp.upper_bound.value, i)
           /\ Elem(lp.lower_bound.value, i) < Elem(lp.upper_bound.value, i))
          => /\ IntegerDomain(lp.dtype)
                => lp.result.logp[i] =
                      logaddexp(log1mexp(BaseLogcdf(lp.value[i])),
                                BaseLogprob(lp.value[i]))
             /\ ContinuousDomain(lp.dtype)
                => lp.result.logp[i] = log1mexp(BaseLogcdf(lp.value[i]))

(* C4: with both bounds finite, lower > upper in any element ends in an    *)
(* evaluation failure and no density is returned; with lower <= upper in   *)
(* every element the guarded rule returns the piecewise density; the guard *)
(* is absent when a bound is an infinity sentinel.                         *)
C4_BoundOrderGuard ==
    Evaluated("clip_logprob")
    => /\ (AllFinite(lp.lower_bound) /\ AllFinite(lp.upper_bound))
          => /\ lp.result.check
             /\ IF \A i \in DOMAIN lp.value :
                      Elem(lp.lower_bound.value, i) <= Elem(lp.upper_bound.value, i)
                THEN /\ lp.result.status = "ok"
                     /\ DOMAIN lp.result.logp = DOMAIN lp.value
                     /\ \A i \in DOMAIN lp.value :
                           lp.result.logp[i] \in ClipBranches(lp.value[i])
                ELSE /\ lp.result.status = "ParameterValueError"
                     /\ lp.result.logp = <<>>
       /\ (IsLowerSentinel(lp.lower_bound) \/ IsUpperSentinel(lp.upper_bound))
          => /\ ~lp.result.check
             /\ lp.result.status = "ok"

C4_Witness ==
    /\ Evaluated("clip_logprob")
    /\ lp.lower_bound.value = <<-One, One>>
    /\ lp.upper_bound.value = <<One, -One>>
    /\ lp.result.status = "ParameterValueError"

(* C8: on the integer grid, negative values included, the rounding rule    *)
(* returns logdiffexp(logcdf(value_upper), logcdf(value_lower)) with the   *)
(* bracket (v - 0.5, v + 0.5) for round, (v, v + 1) for floor and          *)
(* (v - 1, v) for ceil; brackets have width 1 and those of consecutive     *)
(* integers meet.                                                          *)
C8_RoundingBracket ==
    Evaluated("round_logprob")
    => /\ lp.result.status = "ok"
       /\ \A i \in DOMAIN lp.value :
             OnGrid(lp.value[i])
             => LET v == lp.value[i]
                    lo == CASE lp.scalar_op = "RoundHalfToEven" -> v - Half
                            [] lp.scalar_op = "Floor" -> v
                            [] lp.scalar_op = "Ceil" -> v - One
                    up == lo + One
                IN  /\ lp.result.logp[i] =
                          logdiffexp(BaseLogcdf(up), BaseLogcdf(lo))
                    /\ value_upper(lp.scalar_op, v) - value_lower(lp.scalar_op, v)
                          = One
                    /\ value_upper(lp.scalar_op, v)
                          = value_lower(lp.scalar_op, v + One)

C8_Witness ==
    /\ Evaluated("round_logprob")
    /\ lp.scalar_op = "RoundHalfToEven"
    /\ lp.value = <<-One, One + One>>
    /\ lp.result.logp[1] =
          logdiffexp(BaseLogcdf(-One + Half), BaseLogcdf(-One - Half))

(* C9: for round, ceil and floor, an observed value that is not an integer *)
(* has probability 0, log-probability -inf.                                *)
C9_OffGridIsNegInf ==
    Evaluated("round_logprob")
    => \A i \in DOMAIN lp.value :
          ~OnGrid(lp.value[i]) => lp.result.logp[i] = NegInfTerm

----------------------------------------------------------------------------
(* Properties of the rewrite pass and of the derivation that follows it *)

Synthetic(n) == nodes[n].op.cls \in {"MeasurableClip", "MeasurableRound"}
PlainTransform(n) == nodes[n].op.cls = "Elemwise"
BaseOf(n) == nodes[n].inputs[1].id
HasMeasurableClass(b) ==
    nodes[b].op.cls \in {"RandomVariable", "MeasurableClip", "MeasurableRound"}
NoRewrite(n) ==
    /\ find_measurable_clips(n).replacement = <<>>
    /\ find_measurable_roundings(n).replacement = <<>>

(* C3: end to end, a clip whose lower input is the base node gets the -inf *)
(* sentinel, one whose upper input is the base gets +inf, and the density  *)
(* rule omits the branches of a sentinel: clip(x, lb, x) gives -inf below  *)
(* lb, the base log-CDF at lb and the base log-probability otherwise;      *)
(* clip(x, x, ub) the mirrored form; clip(x, x, x) the base                *)
(* log-probability with no switch and no bound-order guard.                *)
C3_OneSidedIdiom ==
    (Evaluated("clip_logprob") /\ lp.node \in Nodes)
    => LET o == source_graph[lp.node]
           selfLo == Is(o.inputs[2], o.inputs[1])
           selfUp == Is(o.inputs[3], o.inputs[1])
           v == lp.value[1]
       IN  /\ selfLo <=> lp.lower_bound = Constant(<<NegInf>>)
           /\ selfUp <=> lp.upper_bound = Constant(<<PosInf>>)
           /\ ~selfLo => lp.lower_bound = o.inputs[2]
           /\ ~selfUp => lp.upper_bound = o.inputs[3]
           /\ (selfLo \/ selfUp)
              => lp.result.status = "ok" /\ ~lp.result.check
           /\ (selfUp /\ ~selfLo)
              => /\ lp.result.switches = 2
                 /\ lp.result.logp =
                       <<IF v < o.inputs[2].value[1] THEN NegInfTerm
                         ELSE IF v = o.inputs[2].value[1] THEN BaseLogcdf(v)
                         ELSE BaseLogprob(v)>>
           /\ (selfLo /\ ~selfUp)
              => /\ lp.result.switches = 2
                 /\ IF v > o.inputs[3].value[1]
                    THEN lp.result.logp = <<NegInfTerm>>
                    ELSE IF v = o.inputs[3].value[1]
                    THEN lp.result.logp[1] \in
                            {log1mexp(BaseLogcdf(v)),
                             logaddexp(log1mexp(BaseLogcdf(v)), BaseLogprob(v))}
                    ELSE lp.result.logp = <<BaseLogprob(v)>>
           /\ (selfLo /\ selfUp)
              => /\ lp.result.switches = 0
                 /\ lp.result.logp = <<BaseLogprob(v)>>

C3_Witness ==
    /\ Evaluated("clip_logprob")
    /\ lp.node \in Nodes
    /\ source_graph[lp.node].inputs[2] = Constant(<<-One>>)
    /\ Is(source_graph[lp.node].inputs[3], source_graph[lp.node].inputs[1])
    /\ nodes[lp.node].op.cls = "MeasurableClip"
    /\ nodes[lp.node].inputs[3] = Constant(<<PosInf>>)
    /\ lp.value = <<-One>>
    /\ lp.result.logp = <<BaseLogcdf(-One)>>

(* C5: at most one Clipped or Rounded node claims a base occurrence; once  *)
(* a base has been stripped, the other clip / round nodes consuming it are *)
(* refused by both rewriters, and the derivation reports the one left      *)
(* behind.                                                                 *)
C5_SharedBaseExclusion ==
    /\ \A b \in Nodes :
          Cardinality({n \in Nodes : Synthetic(n) /\ BaseOf(n) = b}) <= 1
    /\ \A n \in Nodes :
          (PlainTransform(n) /\ BaseOf(n) \in unmeasurable)
          => /\ NoRewrite(n)
             /\ (joint.status # "none" /\ n \in rv_values)
                => joint.status = "RuntimeError" /\ n \in joint.missing

C5_Witness ==
    \E n1 \in Nodes, n2 \in Nodes :
        /\ n1 < n2
        /\ source_graph[n1].op = ElemwiseOp("Clip")
        /\ source_graph[n2].op = ElemwiseOp("Clip")
        /\ BaseOf(n1) = BaseOf(n2)
        /\ rv_values = {n1, n2}
        /\ Synthetic(n1) /\ PlainTransform(n2)
        /\ joint.status = "RuntimeError"
        /\ joint.missing = {n2}

(* C6: when the observed-value mapping holds a value for a base random     *)
(* variable and for a clip or rounding of it, the rewriters propose        *)
(* nothing for that node, and the derivation fails naming the transformed  *)
(* variable and not the base; no joint log-probability is returned.        *)
C6_OwnershipConflict ==
    \A n \in Nodes :
        (/\ source_graph[n].op.cls = "Elemwise"
         /\ n \in rv_values
         /\ BaseOf(n) \in rv_values
         /\ HasMeasurableClass(BaseOf(n)))
        => /\ NoRewrite(n)
           /\ PlainTransform(n)
           /\ joint.status # "none"
              => /\ joint.status = "RuntimeError"
                 /\ joint.terms = {}
                 /\ n \in joint.missing
                 /\ BaseOf(n) \notin joint.missing

C6_Witness ==
    /\ joint.status = "RuntimeError"
    /\ \E n \in Nodes :
          /\ source_graph[n].op = ElemwiseOp("Clip")
          /\ nodes[BaseOf(n)].op = RandomVariableOp
          /\ rv_values = {n, BaseOf(n)}
          /\ joint.missing = {n}

(* C7: a rewrite is proposed only for a clip node whose base is produced   *)
(* by a measurable node and is not a key of the observed-value mapping,    *)
(* and for a round / floor / ceil node whose base moreover has a float     *)
(* dtype; a call that returns None strips no capability and leaves the     *)
(* graph as it was.                                                        *)
C7_Step ==
    /\ \A n \in Nodes :
          nodes'[n] # nodes[n]
          => /\ nodes[n].op.cls = "Elemwise"
             /\ HasMeasurableClass(BaseOf(n))
             /\ BaseOf(n) \notin unmeasurable
             /\ BaseOf(n) \notin rv_values
             /\ \/ /\ nodes[n].op.scalar_op = "Clip"
                   /\ nodes'[n].op.cls = "MeasurableClip"
                \/ /\ nodes[n].op.scalar_op \in RoundKinds
                   /\ nodes'[n].op.cls = "MeasurableRound"
                   /\ ContinuousDomain(nodes[BaseOf(n)].dtype)
                   /\ ~IntegerDomain(nodes[BaseOf(n)].dtype)
             /\ unmeasurable' = unmeasurable \cup {BaseOf(n)}
    /\ unmeasurable' # unmeasurable => nodes' # nodes
    /\ (ret' # ret /\ ret' = "None")
       => nodes' = nodes /\ unmeasurable' = unmeasurable

C7_Eligibility == [][C7_Step]_vars

C7_Witness ==
    /\ ret = "None"
    /\ \E n \in Nodes :
          /\ nodes[n].op = ElemwiseOp("Clip")
          /\ nodes[BaseOf(n)].op = RandomVariableOp
          /\ BaseOf(n) \in rv_values
          /\ n \notin rv_values
    /\ \E n \in Nodes :
          /\ nodes[n].op.cls = "Elemwise"
          /\ nodes[n].op.scalar_op \in RoundKinds
          /\ nodes[BaseOf(n)].op = RandomVariableOp
          /\ nodes[BaseOf(n)].dtype = int64

(* C10: the pass ends after finitely many accepted rewrites: every         *)
(* accepted rewrite turns one more node into a Clipped or Rounded node, so *)
(* there are never more than there are nodes, and a Clipped or Rounded     *)
(* node is not matched again, also in chains.                              *)
C10_Termination ==
    /\ nrewrites = Cardinality({n \in Nodes : Synthetic(n)})
    /\ nrewrites <= NumNodes
    /\ \A n \in Nodes : Synthetic(n) => NoRewrite(n)

C10_Witness ==
    /\ FixedPoint
    /\ nrewrites = 2
    /\ \E n \in Nodes, m \in Nodes :
          /\ n # m
          /\ Synthetic(n) /\ Synthetic(m)
          /\ BaseOf(m) = n
          /\ nodes[n].op.cls = "MeasurableRound"
          /\ nodes[m].op.cls = "MeasurableClip"

====
